---- MODULE Spec2Model ----
(***************************************************************************)
(* LTPD acceptance-sampling plans (src/6.py): the hypergeometric           *)
(* acceptance evaluators, the minimum-sample-size solver, the OC curve     *)
(* generator and the AOQL estimator, in both the c = 0 variant and the     *)
(* general-c variant.                                                      *)
(*                                                                         *)
(* A Python float is an IEEE-754 binary64 number: <<sign, mantissa,        *)
(* exponent>> with a 53-bit mantissa, every operation rounded to nearest,  *)
(* ties to even.  The variable arith selects that arithmetic ("double",    *)
(* what the program runs on) or exact rationals <<num, den>> in lowest     *)
(* terms ("exact", the arithmetic the closed forms are stated in).         *)
(***************************************************************************)
EXTENDS Integers, Sequences, FiniteSets, TLC

VARIABLES arith, fn, pc, N, D, n, c, pL, beta, p_max, puntos,
          i, x, p0, Pa, f, p_vals, Pa_vals, ret, retline, raised

vars == <<arith, fn, pc, N, D, n, c, pL, beta, p_max, puntos,
          i, x, p0, Pa, f, p_vals, Pa_vals, ret, retline, raised>>

(* ------------------------------ bounds --------------------------------- *)
MaxN == 5
MaxC == 2
PLDen == 4
BetaDen == 4
PMaxDen == 4
MaxPuntos == 3

(* --------------------------- exact rationals --------------------------- *)
Abs(a) == IF a < 0 THEN -a ELSE a

RECURSIVE GCD(_, _)
GCD(a, b) == IF b = 0 THEN a ELSE GCD(b, a % b)

Norm(a, b) ==
    LET g == GCD(Abs(a), Abs(b))
        s == IF b < 0 THEN -1 ELSE 1
    IN  <<(s * a) \div g, (s * b) \div g>>

R(a) == <<a, 1>>
RAdd(r, q) == Norm(r[1] * q[2] + q[1] * r[2], r[2] * q[2])
RMul(r, q) == Norm(r[1] * q[1], r[2] * q[2])
RDiv(r, q) == Norm(r[1] * q[2], r[2] * q[1])
RLeq(r, q) == r[1] * q[2] <= q[1] * r[2]
RCeil(r) == IF r[1] % r[2] = 0 THEN r[1] \div r[2] ELSE (r[1] \div r[2]) + 1

(* ------------------- natural numbers of any size ----------------------- *)
\* little-endian limbs in base 2^13, no leading zero limb; zero is << >>.
\* An argument is named by a LET before it is used more than once, so that
\* it is computed once.
LimbBits == 13
Base == 8192
MantBits == 53

Pow2(k) == <<1, 2, 4, 8, 16, 32, 64, 128, 256, 512, 1024, 2048, 4096, 8192>>[k + 1]

RECURSIVE IntBitLen(_)
IntBitLen(k) == IF k = 0 THEN 0 ELSE 1 + IntBitLen(k \div 2)

Limb(a, k) == IF k >= 1 /\ k <= Len(a) THEN a[k] ELSE 0

RECURSIVE BStripTo(_, _)
BStripTo(a, k) ==
    IF k = 0 THEN <<>>
    ELSE IF a[k] = 0 THEN BStripTo(a, k - 1)
    ELSE IF k = Len(a) THEN a ELSE SubSeq(a, 1, k)

BStrip(a0) == LET a == a0 IN BStripTo(a, Len(a))

RECURSIVE BCarryFrom(_, _, _, _)
BCarryFrom(cols, k, carry0, acc) ==
    LET carry == carry0 IN
    IF k > Len(cols)
    THEN IF carry = 0 THEN acc
         ELSE BCarryFrom(cols, k, carry \div Base, Append(acc, carry % Base))
    ELSE LET t == cols[k] + carry
         IN  BCarryFrom(cols, k + 1, t \div Base, Append(acc, t % Base))

BNorm(cols0) == LET cols == cols0 IN BStrip(BCarryFrom(cols, 1, 0, <<>>))
BFromInt(k) == BNorm(<<k>>)

RECURSIVE BToIntFrom(_, _)
BToIntFrom(a, k) == IF k > Len(a) THEN 0 ELSE a[k] + Base * BToIntFrom(a, k + 1)

BToInt(a0) == LET a == a0 IN BToIntFrom(a, 1)

BAdd(a0, b0) ==
    LET a == a0
        b == b0
        len == IF Len(a) >= Len(b) THEN Len(a) ELSE Len(b)
    IN  BNorm([k \in 1..len |-> Limb(a, k) + Limb(b, k)])

RECURSIVE BSubFrom(_, _, _, _, _)
BSubFrom(a, b, k, borrow, acc) ==
    IF k > Len(a) THEN acc
    ELSE LET t == Limb(a, k) - Limb(b, k) - borrow
         IN  IF t < 0 THEN BSubFrom(a, b, k + 1, 1, Append(acc, t + Base))
             ELSE BSubFrom(a, b, k + 1, 0, Append(acc, t))

\* a - b for a >= b
BSub(a0, b0) ==
    LET a == a0
        b == b0
    IN  BStrip(BSubFrom(a, b, 1, 0, <<>>))

RECURSIVE BCmpAt(_, _, _)
BCmpAt(a, b, k) ==
    IF k = 0 THEN 0
    ELSE IF a[k] < b[k] THEN -1
    ELSE IF a[k] > b[k] THEN 1
    ELSE BCmpAt(a, b, k - 1)

BCmp(a0, b0) ==
    LET a == a0
        b == b0
    IN  IF Len(a) < Len(b) THEN -1
        ELSE IF Len(a) > Len(b) THEN 1
        ELSE BCmpAt(a, b, Len(a))

RECURSIVE BColSum(_, _, _, _)
BColSum(a, b, k, j) ==
    IF j > Len(a) THEN 0
    ELSE a[j] * Limb(b, k + 1 - j) + BColSum(a, b, k, j + 1)

BMul(a0, b0) ==
    LET a == a0
        b == b0
    IN  IF a = <<>> \/ b = <<>> THEN <<>>
        ELSE BNorm([k \in 1..(Len(a) + Len(b) - 1) |-> BColSum(a, b, k, 1)])

\* a * 2^s
BShl(a0, s) ==
    LET a == a0
        q == s \div LimbBits
        r == Pow2(s % LimbBits)
    IN  IF a = <<>> THEN <<>>
        ELSE BNorm([k \in 1..(Len(a) + q) |-> IF k <= q THEN 0 ELSE a[k - q] * r])

BPow2(s) == BShl(<<1>>, s)

\* a \div 2^s
BShr(a0, s) ==
    LET a == a0
        q == s \div LimbBits
        lo == Pow2(s % LimbBits)
        hi == Pow2(LimbBits - (s % LimbBits))
    IN  IF Len(a) <= q THEN <<>>
        ELSE BStrip([k \in 1..(Len(a) - q) |->
                 (a[k + q] \div lo) + (Limb(a, k + q + 1) % lo) * hi])

BBitLen(a0) ==
    LET a == a0
    IN  IF a = <<>> THEN 0 ELSE (Len(a) - 1) * LimbBits + IntBitLen(a[Len(a)])

(* ---------------------------- IEEE doubles ----------------------------- *)
\* <<sign, mantissa, exponent>>: sign * mantissa * 2^exponent with a
\* mantissa of exactly 53 bits; zero is <<1, << >>, 0>>, nan is <<0, << >>, 0>>
FZero == <<1, <<>>, 0>>
FNaN == <<0, <<>>, 0>>

\* round-to-nearest-even of sgn * M * 2^e
FRound(sgn, M0, e) ==
    LET M == M0
        L == BBitLen(M)
        sh == L - MantBits
        q == BShr(M, sh)
        rem == BSub(M, BShl(q, sh))
        cm == BCmp(rem, BPow2(sh - 1))
        up == cm = 1 \/ (cm = 0 /\ q[1] % 2 = 1)
        q2 == IF up THEN BAdd(q, <<1>>) ELSE q
    IN  IF M = <<>> THEN FZero
        ELSE IF L <= MantBits THEN <<sgn, BShl(M, MantBits - L), e - (MantBits - L)>>
        ELSE IF BBitLen(q2) > MantBits THEN <<sgn, BShr(q2, 1), e + sh + 1>>
        ELSE <<sgn, q2, e + sh>>

FFromInt(k) == FRound(IF k < 0 THEN -1 ELSE 1, BFromInt(IF k < 0 THEN -k ELSE k), 0)

FMul(u0, v0) ==
    LET u == u0
        v == v0
    IN  FRound(u[1] * v[1], BMul(u[2], v[2]), u[3] + v[3])

FAdd(u0, v0) ==
    LET u == u0
        v == v0
        e == IF u[3] <= v[3] THEN u[3] ELSE v[3]
        U == BShl(u[2], u[3] - e)
        V == BShl(v[2], v[3] - e)
        cm == BCmp(U, V)
    IN  IF u[2] = <<>> THEN v
        ELSE IF v[2] = <<>> THEN u
        ELSE IF u[1] = v[1] THEN FRound(u[1], BAdd(U, V), e)
        ELSE IF cm = 0 THEN FZero
        ELSE IF cm = 1 THEN FRound(u[1], BSub(U, V), e)
        ELSE FRound(v[1], BSub(V, U), e)

\* a number below 2^57 as <<high, low>> with low < 2^26, and back
PairBase == 67108864
BToPair(a) ==
    <<Limb(a, 3) + Base * Limb(a, 4) + Base * Base * Limb(a, 5),
      Limb(a, 1) + Base * Limb(a, 2)>>
BFromPair(h, l) ==
    BStrip(<<l % Base, l \div Base, h % Base, (h \div Base) % Base,
             h \div (Base * Base)>>)

\* long division on pairs, one quotient bit at a time: the quotient and
\* whether a remainder is left
RECURSIVE PDivBits(_, _, _, _, _, _, _)
PDivBits(rh, rl, dh, dl, bits, qh, ql) ==
    IF bits = 0 THEN <<qh, ql, rh # 0 \/ rl # 0>>
    ELSE LET r2h == 2 * rh + (2 * rl) \div PairBase
             r2l == (2 * rl) % PairBase
             ge == r2h > dh \/ (r2h = dh /\ r2l >= dl)
             nl == IF ~ge THEN r2l
                   ELSE IF r2l >= dl THEN r2l - dl ELSE r2l - dl + PairBase
             nh == IF ~ge THEN r2h
                   ELSE IF r2l >= dl THEN r2h - dh ELSE r2h - dh - 1
             q2 == 2 * ql + (IF ge THEN 1 ELSE 0)
             nql == q2 % PairBase
             nqh == 2 * qh + q2 \div PairBase
         IN  IF nl + nh + nql + nqh >= 0
             THEN PDivBits(nh, nl, dh, dl, bits - 1, nqh, nql)
             ELSE <<nqh, nql, TRUE>>

\* u / v for v # 0
FDiv(u0, v0) ==
    LET u == u0
        v == v0
        ge == BCmp(u[2], v[2]) >= 0
        r0 == BToPair(IF ge THEN BSub(u[2], v[2]) ELSE u[2])
        dv == BToPair(v[2])
        qr == PDivBits(r0[1], r0[2], dv[1], dv[2], MantBits + 2, 0, IF ge THEN 1 ELSE 0)
        Q == BFromPair(qr[1], qr[2])
        M == BAdd(BAdd(Q, Q), IF qr[3] THEN <<1>> ELSE <<>>)
    IN  IF u[2] = <<>> THEN FZero
        ELSE FRound(u[1] * v[1], M, u[3] - v[3] - (MantBits + 2) - 1)

\* the fractional limbs of r / b, then the remainder: b < 2^17
RECURSIVE IntFracLimbs(_, _, _, _)
IntFracLimbs(r, b, k, acc) ==
    IF k = 0 THEN <<acc, r>>
    ELSE IntFracLimbs((r * Base) % b, b, k - 1, <<(r * Base) \div b>> \o acc)

\* Python's int / int for 0 < |b| < 2^17 and |a| < 2^31, correctly rounded
FDivInt(a, b) ==
    LET a_ == IF a < 0 THEN -a ELSE a
        b_ == IF b < 0 THEN -b ELSE b
        fl == IntFracLimbs(a_ % b_, b_, 6, <<>>)
        M == BAdd(BShl(BFromInt(a_ \div b_), 6 * LimbBits), BStrip(fl[1]))
        M2 == BAdd(BAdd(M, M), IF fl[2] = 0 THEN <<>> ELSE <<1>>)
    IN  FRound(IF (a < 0) = (b < 0) THEN 1 ELSE -1, M2, -(6 * LimbBits) - 1)

FCmp(u0, v0) ==
    LET u == u0
        v == v0
        mag == IF u[3] < v[3] THEN -1
               ELSE IF u[3] > v[3] THEN 1
               ELSE BCmp(u[2], v[2])
    IN  IF u[2] = <<>> THEN (IF v[2] = <<>> THEN 0 ELSE -v[1])
        ELSE IF v[2] = <<>> THEN u[1]
        ELSE IF u[1] # v[1] THEN u[1]
        ELSE u[1] * mag

\* math.ceil
FCeil(u0) ==
    LET u == u0
        q == BShr(u[2], -u[3])
        exact == BShl(q, -u[3]) = u[2]
    IN  IF u[2] = <<>> THEN 0
        ELSE IF u[3] >= 0 THEN u[1] * BToInt(BShl(u[2], u[3]))
        ELSE IF u[1] = 1 THEN BToInt(q) + (IF exact THEN 0 ELSE 1)
        ELSE -BToInt(q)

(* ------------------ float operations of the program -------------------- *)
IsDouble(u) == Len(u) = 3

\* float(k)
Num(k) == IF arith = "double" THEN FFromInt(k) ELSE R(k)

\* int / int, and the float literal a/b
Quot(a, b) == IF arith = "double" THEN FDivInt(a, b) ELSE Norm(a, b)

\* float('nan')
NaN == IF arith = "double" THEN FNaN ELSE <<0, 0>>
IsNaN(u0) ==
    LET u == u0
    IN  IF IsDouble(u) THEN u[1] = 0 ELSE u[2] = 0
IsZero(u0) ==
    LET u == u0
    IN  IF IsDouble(u) THEN u[1] # 0 /\ u[2] = <<>> ELSE u[1] = 0 /\ u[2] # 0

Add(u0, v0) ==
    LET u == u0
        v == v0
    IN  IF IsDouble(u) THEN FAdd(u, v) ELSE RAdd(u, v)
Mul(u0, v0) ==
    LET u == u0
        v == v0
    IN  IF IsDouble(u) THEN FMul(u, v) ELSE RMul(u, v)
Div(u0, v0) ==
    LET u == u0
        v == v0
    IN  IF IsDouble(u) THEN FDiv(u, v) ELSE RDiv(u, v)
Leq(u0, v0) ==
    LET u == u0
        v == v0
    IN  IF IsDouble(u) THEN FCmp(u, v) <= 0 ELSE RLeq(u, v)
Lt(u, v) == ~Leq(v, u)

\* max(a, b) and min(a, b) of Python: a unless b is larger (smaller)
Max(u0, v0) ==
    LET u == u0
        v == v0
    IN  IF Lt(u, v) THEN v ELSE u
Min(u0, v0) ==
    LET u == u0
        v == v0
    IN  IF Lt(v, u) THEN v ELSE u

\* math.ceil
Ceil(u0) ==
    LET u == u0
    IN  IF IsDouble(u) THEN FCeil(u) ELSE RCeil(u)

\* math.comb(a, b) for a, b >= 0 (0 when b > a)
RECURSIVE comb(_, _)
comb(a, b) ==
    IF b > a THEN 0
    ELSE IF b = 0 THEN 1
    ELSE (comb(a - 1, b - 1) * a) \div b

\* math.comb raises ValueError on a negative argument
comb_raises(a, b) == a < 0 \/ b < 0
(* -------------------- prob_zero_defects (c = 0) ------------------------ *)
\* the early returns of lines 54-56: <<taken, value>>
pzd_early(N_, D_, n_) ==
    IF n_ = 0 THEN <<TRUE, Num(1)>>
    ELSE IF D_ <= 0 THEN <<TRUE, Num(1)>>
    ELSE IF n_ > N_ THEN <<TRUE, Num(0)>>
    ELSE <<FALSE, Num(0)>>

\* variant: the numerator counts one unit too few
pzd_factor_OffByOne(N_, D_, i_) == Quot(N_ - D_ - i_ - 1, N_ - i_)

\* one factor of the cumulative product, line 59
pzd_factor(N_, D_, i_) == Quot(N_ - D_ - i_, N_ - i_)

\* line 60
pzd_clamp(p) == Max(Min(p, Num(1)), Num(0))

RECURSIVE pzd_loop(_, _, _, _, _)
pzd_loop(N_, D_, n_, i_, p) ==
    IF i_ >= n_ THEN p
    ELSE pzd_loop(N_, D_, n_, i_ + 1, Mul(p, pzd_factor(N_, D_, i_)))

prob_zero_defects(N_, D_, n_) ==
    IF pzd_early(N_, D_, n_)[1] THEN pzd_early(N_, D_, n_)[2]
    ELSE pzd_clamp(pzd_loop(N_, D_, n_, 0, Num(1)))

prob_zero_defects_raises(N_, D_, n_) ==
    /\ ~pzd_early(N_, D_, n_)[1]
    /\ \E i_ \in 0..(n_ - 1) : N_ - i_ = 0

(* -------------------- prob_aceptacion (general c) ---------------------- *)
\* variant: the upper bound on n - x is not tested
pa_guard_NoUpperBound(N_, D_, n_, x_) ==
    0 <= x_ /\ x_ <= D_ /\ 0 <= n_ - x_

\* the guard of line 249
pa_guard(N_, D_, n_, x_) ==
    0 <= x_ /\ x_ <= D_ /\ 0 <= n_ - x_ /\ n_ - x_ <= N_ - D_

\* does evaluating the term of line 250 raise
pa_term_raises(N_, D_, n_, x_) ==
    \/ comb_raises(D_, x_)
    \/ comb_raises(N_ - D_, n_ - x_)
    \/ comb_raises(N_, n_)
    \/ comb(N_, n_) = 0

\* the term of line 250: an int product divided by an int
pa_term(N_, D_, n_, x_) == Quot(comb(D_, x_) * comb(N_ - D_, n_ - x_), comb(N_, n_))

RECURSIVE pa_loop(_, _, _, _, _, _)
pa_loop(N_, D_, n_, c_, x_, acc) ==
    IF x_ > c_ THEN acc
    ELSE IF pa_guard(N_, D_, n_, x_)
         THEN pa_loop(N_, D_, n_, c_, x_ + 1, Add(acc, pa_term(N_, D_, n_, x_)))
         ELSE pa_loop(N_, D_, n_, c_, x_ + 1, acc)

prob_aceptacion(N_, D_, n_, c_) == pa_loop(N_, D_, n_, c_, 0, Num(0))

prob_aceptacion_raises(N_, D_, n_, c_) ==
    \E x_ \in 0..c_ : pa_guard(N_, D_, n_, x_) /\ pa_term_raises(N_, D_, n_, x_)

(* evaluators as called from the solver and the curve generator *)
ZeroVariant(fn_) ==
    fn_ \in {"prob_zero_defects", "encontrar_n_hipergeometrica_c0",
             "curva_OC_hipergeometrica", "aoql_aproximado"}

Evaluate(fn_, N_, D_, n_, c_) ==
    IF ZeroVariant(fn_) THEN prob_zero_defects(N_, D_, n_)
    ELSE prob_aceptacion(N_, D_, n_, c_)

EvaluateRaises(fn_, N_, D_, n_, c_) ==
    IF ZeroVariant(fn_) THEN prob_zero_defects_raises(N_, D_, n_)
    ELSE prob_aceptacion_raises(N_, D_, n_, c_)

(* ------------------------------ solver --------------------------------- *)
\* D = math.ceil(N * pL), lines 69 and 260
LimitD(N_, pL_) == Ceil(Mul(Num(N_), pL_))

\* variant: the risk target must be beaten strictly
SolverCond_Strict(P, beta_) == Lt(P, beta_)

\* the test of lines 72 and 263
SolverCond(P, beta_) == Leq(P, beta_)

\* first value of range(1, N + 1), lines 70 and 261
SolverFirst == 1

(* --------------------------- curve generator --------------------------- *)
\* np.linspace(0, p_max, puntos), lines 88 and 273: step = stop / (num - 1),
\* the k-th value is (k - 1) * step, the last one is set to stop
linspace(stop, num) ==
    LET step == Div(stop, Num(num - 1))
        step_zero == IsZero(step)
    IN  [k \in 1..num |->
            IF num = 1 \/ k = 1 THEN Num(0)
            ELSE IF k = num THEN stop
            ELSE IF step_zero
                 THEN Mul(Quot(k - 1, num - 1), stop)
                 ELSE Mul(Num(k - 1), step)]

\* D = math.ceil(N * p), lines 91 and 276
CurveD(N_, p) == Ceil(Mul(Num(N_), p))

\* scaling to percent, lines 92-93 and 277-278
Percent(u) == Mul(u, Num(100))

(* ------------------------------- AOQL ---------------------------------- *)
\* the literal 0.3679
AoqlCoef == Quot(3679, 10000)

\* f = n / N if N > 0 else 0 (line 79);  f = n / N (line 288)
aoql_f_raises(fn_, N_) == fn_ = "aoql_aprox" /\ N_ = 0
aoql_f(fn_, N_, n_) ==
    IF fn_ = "aoql_aproximado" /\ ~(N_ > 0) THEN Num(0) ELSE Quot(n_, N_)

\* variant: the fraction is not tested before dividing
aoql_defined_Always(f_) == TRUE

\* the test "if f > 0" of lines 80 and 289
aoql_defined(f_) == Lt(Num(0), f_)

\* 0.3679 / (N * f) if f > 0 else float('nan')
aoql_value(N_, f_) ==
    IF aoql_defined(f_) THEN Div(AoqlCoef, Mul(Num(N_), f_)) ELSE NaN

(* ------------------------------ inputs --------------------------------- *)
Evaluators == {"prob_zero_defects", "prob_aceptacion"}
Solvers == {"encontrar_n_hipergeometrica_c0", "encontrar_n_hipergeometrica"}
Curves == {"curva_OC_hipergeometrica", "curva_CO"}
Aoqls == {"aoql_aproximado", "aoql_aprox"}

\* the largest double below 1.0
BelowOne == <<1, <<8191, 8191, 8191, 8191, 1>>, -53>>

PLSet == {Quot(k, PLDen) : k \in 1..(PLDen - 1)}
BetaSet ==
    {Quot(k, BetaDen) : k \in 1..(BetaDen - 1)} \cup {Quot(1, 1000)}
    \cup (IF arith = "double" THEN {BelowOne} ELSE {})
PMaxSet == {Quot(k, PMaxDen) : k \in 0..PMaxDen} \cup {Quot(2, 25)}

Idle ==
    /\ i = 0 /\ x = 0 /\ p0 = Num(0) /\ Pa = Num(0) /\ f = Num(0)
    /\ p_vals = <<>> /\ Pa_vals = <<>> /\ ret = <<>>
    /\ retline = 0 /\ raised = "none" /\ pc = "start"

InitEvaluator ==
    /\ fn \in Evaluators
    /\ N \in (-1)..MaxN
    /\ D \in (-1)..(MaxN + 1)
    /\ n \in (-1)..(MaxN + 1)
    /\ c \in IF fn = "prob_zero_defects" THEN {0} ELSE (-1)..MaxC
    /\ pL = Num(0) /\ beta = Num(0) /\ p_max = Num(0) /\ puntos = 0

InitSolver ==
    /\ fn \in Solvers
    /\ N \in 1..MaxN
    /\ pL \in PLSet
    /\ beta \in BetaSet
    /\ c \in IF ZeroVariant(fn) THEN {0} ELSE 0..MaxC
    /\ D = 0 /\ n = 0 /\ p_max = Num(0) /\ puntos = 0

InitCurve ==
    /\ fn \in Curves
    /\ N \in 1..MaxN
    /\ n \in 0..N
    /\ c \in IF ZeroVariant(fn) THEN {0} ELSE 0..MaxC
    /\ p_max \in PMaxSet
    /\ puntos \in 1..MaxPuntos
    /\ D = 0 /\ pL = Num(0) /\ beta = Num(0)

InitAoql ==
    /\ fn \in Aoqls
    /\ N \in (0..MaxN) \cup {600}
    /\ n \in (0..N) \cap ((0..MaxN) \cup {80, 600})
    /\ D = 0 /\ c = 0 /\ pL = Num(0) /\ beta = Num(0) /\ p_max = Num(0)
    /\ puntos = 0

InitCall == Idle /\ (InitEvaluator \/ InitSolver \/ InitCurve \/ InitAoql)

\* the program: Python floats are doubles
Init == arith = "double" /\ InitCall

\* the same calls carried out in exact rational arithmetic
InitExact == arith = "exact" /\ InitCall

inputs == <<arith, fn, N, c, pL, beta, p_max, puntos>>

Return(value, line) ==
    /\ ret' = value /\ retline' = line /\ pc' = "done"

Raise(exc) ==
    /\ raised' = exc /\ pc' = "done" /\ UNCHANGED <<ret, retline>>

(* ----------------------- prob_zero_defects steps ----------------------- *)
PZD_EarlyReturn ==
    /\ fn = "prob_zero_defects" /\ pc = "start"
    /\ pzd_early(N, D, n)[1]
    /\ Return(pzd_early(N, D, n)[2],
              IF n = 0 THEN 54 ELSE IF D <= 0 THEN 55 ELSE 56)
    /\ UNCHANGED <<inputs, D, n, i, x, p0, Pa, f, p_vals, Pa_vals, raised>>

PZD_Enter ==
    /\ fn = "prob_zero_defects" /\ pc = "start"
    /\ ~pzd_early(N, D, n)[1]
    /\ p0' = Num(1) /\ i' = 0 /\ pc' = "loop"
    /\ UNCHANGED <<inputs, D, n, x, Pa, f, p_vals, Pa_vals, ret, retline, raised>>

PZD_Step ==
    /\ fn = "prob_zero_defects" /\ pc = "loop"
    /\ i < n
    /\ IF N - i = 0
       THEN Raise("ZeroDivisionError") /\ UNCHANGED <<p0, i>>
       ELSE /\ p0' = Mul(p0, pzd_factor(N, D, i))
            /\ i' = i + 1
            /\ UNCHANGED <<pc, ret, retline, raised>>
    /\ UNCHANGED <<inputs, D, n, x, Pa, f, p_vals, Pa_vals>>

PZD_Return ==
    /\ fn = "prob_zero_defects" /\ pc = "loop"
    /\ i >= n
    /\ Return(pzd_clamp(p0), 60)
    /\ UNCHANGED <<inputs, D, n, i, x, p0, Pa, f, p_vals, Pa_vals, raised>>

(* ------------------------ prob_aceptacion steps ------------------------ *)
PA_Enter ==
    /\ fn = "prob_aceptacion" /\ pc = "start"
    /\ Pa' = Num(0) /\ x' = 0 /\ pc' = "loop"
    /\ UNCHANGED <<inputs, D, n, i, p0, f, p_vals, Pa_vals, ret, retline, raised>>

PA_Skip ==
    /\ fn = "prob_aceptacion" /\ pc = "loop"
    /\ x <= c
    /\ ~pa_guard(N, D, n, x)
    /\ x' = x + 1
    /\ UNCHANGED <<inputs, D, n, i, p0, Pa, f, p_vals, Pa_vals, ret, retline,
                   raised, pc>>

PA_Add ==
    /\ fn = "prob_aceptacion" /\ pc = "loop"
    /\ x <= c
    /\ pa_guard(N, D, n, x)
    /\ IF pa_term_raises(N, D, n, x)
       THEN /\ Raise(IF comb_raises(D, x) \/ comb_raises(N - D, n - x)
                        \/ comb_raises(N, n)
                     THEN "ValueError" ELSE "ZeroDivisionError")
            /\ UNCHANGED <<Pa, x>>
       ELSE /\ Pa' = Add(Pa, pa_term(N, D, n, x))
            /\ x' = x + 1
            /\ UNCHANGED <<pc, ret, retline, raised>>
    /\ UNCHANGED <<inputs, D, n, i, p0, f, p_vals, Pa_vals>>

PA_Return ==
    /\ fn = "prob_aceptacion" /\ pc = "loop"
    /\ x > c
    /\ Return(Pa, 251)
    /\ UNCHANGED <<inputs, D, n, i, x, p0, Pa, f, p_vals, Pa_vals, raised>>

(* ---------------------- encontrar_n_hipergeometrica -------------------- *)
Solver_Start ==
    /\ fn \in Solvers /\ pc = "start"
    /\ D' = LimitD(N, pL)
    /\ IF SolverFirst <= N
       THEN n' = SolverFirst /\ pc' = "loop"
       ELSE n' = n /\ pc' = "after_loop"
    /\ UNCHANGED <<inputs, i, x, p0, Pa, f, p_vals, Pa_vals, ret, retline, raised>>

Solver_Iter ==
    /\ fn \in Solvers /\ pc = "loop"
    /\ IF EvaluateRaises(fn, N, D, n, c)
       THEN Raise("ZeroDivisionError") /\ UNCHANGED <<Pa, n>>
       ELSE LET P == Evaluate(fn, N, D, n, c) IN
            /\ Pa' = P
            /\ IF SolverCond(P, beta)
               THEN /\ Return(<<n, D, P>>, IF ZeroVariant(fn) THEN 73 ELSE 264)
                    /\ n' = n
               ELSE /\ IF n < N
                       THEN n' = n + 1 /\ pc' = "loop"
                       ELSE n' = n /\ pc' = "after_loop"
                    /\ UNCHANGED <<ret, retline>>
            /\ UNCHANGED raised
    /\ UNCHANGED <<inputs, D, i, x, p0, f, p_vals, Pa_vals>>

Solver_Fallback ==
    /\ fn \in Solvers /\ pc = "after_loop"
    /\ IF EvaluateRaises(fn, N, D, N, c)
       THEN Raise("ZeroDivisionError")
       ELSE /\ Return(<<N, D, Evaluate(fn, N, D, N, c)>>,
                      IF ZeroVariant(fn) THEN 74 ELSE 265)
            /\ UNCHANGED raised
    /\ UNCHANGED <<inputs, D, n, i, x, p0, Pa, f, p_vals, Pa_vals>>

(* ------------------ curva_OC_hipergeometrica / curva_CO ---------------- *)
Curve_Start ==
    /\ fn \in Curves /\ pc = "start"
    /\ p_vals' = linspace(p_max, puntos)
    /\ Pa_vals' = <<>>
    /\ pc' = "loop"
    /\ UNCHANGED <<inputs, D, n, i, x, p0, Pa, f, ret, retline, raised>>

Curve_Step ==
    /\ fn \in Curves /\ pc = "loop"
    /\ Len(Pa_vals) < Len(p_vals)
    /\ LET p == p_vals[Len(Pa_vals) + 1]
           Dp == CurveD(N, p)
       IN  IF EvaluateRaises(fn, N, Dp, n, c)
           THEN Raise("ZeroDivisionError") /\ UNCHANGED <<D, Pa_vals>>
           ELSE /\ D' = Dp
                /\ Pa_vals' = Append(Pa_vals, Percent(Evaluate(fn, N, Dp, n, c)))
                /\ UNCHANGED <<pc, ret, retline, raised>>
    /\ UNCHANGED <<inputs, n, i, x, p0, Pa, f, p_vals>>

Curve_Return ==
    /\ fn \in Curves /\ pc = "loop"
    /\ Len(Pa_vals) >= Len(p_vals)
    /\ Return(<<[k \in 1..Len(p_vals) |-> Percent(p_vals[k])], Pa_vals>>,
              IF ZeroVariant(fn) THEN 93 ELSE 278)
    /\ UNCHANGED <<inputs, D, n, i, x, p0, Pa, f, p_vals, Pa_vals, raised>>

(* ---------------------- aoql_aproximado / aoql_aprox ------------------- *)
Aoql_Fraction ==
    /\ fn \in Aoqls /\ pc = "start"
    /\ IF aoql_f_raises(fn, N)
       THEN Raise("ZeroDivisionError") /\ UNCHANGED f
       ELSE /\ f' = aoql_f(fn, N, n)
            /\ pc' = "have_f"
            /\ UNCHANGED <<ret, retline, raised>>
    /\ UNCHANGED <<inputs, D, n, i, x, p0, Pa, p_vals, Pa_vals>>

Aoql_Return ==
    /\ fn \in Aoqls /\ pc = "have_f"
    /\ IF aoql_defined(f) /\ IsZero(Mul(Num(N), f))
       THEN Raise("ZeroDivisionError")
       ELSE /\ Return(aoql_value(N, f), IF ZeroVariant(fn) THEN 80 ELSE 289)
            /\ UNCHANGED raised
    /\ UNCHANGED <<inputs, D, n, i, x, p0, Pa, f, p_vals, Pa_vals>>

Next ==
    \/ PZD_EarlyReturn \/ PZD_Enter \/ PZD_Step \/ PZD_Return
    \/ PA_Enter \/ PA_Skip \/ PA_Add \/ PA_Return
    \/ Solver_Start \/ Solver_Iter \/ Solver_Fallback
    \/ Curve_Start \/ Curve_Step \/ Curve_Return
    \/ Aoql_Fraction \/ Aoql_Return

Spec == Init /\ [][Next]_vars

\* the same calls in exact rational arithmetic
SpecExact == InitExact /\ [][Next]_vars

(* ----------------------------- type sanity ----------------------------- *)
TypeOK ==
    /\ arith \in {"double", "exact"}
    /\ fn \in Evaluators \cup Solvers \cup Curves \cup Aoqls
    /\ pc \in {"start", "loop", "after_loop", "have_f", "done"}
    /\ raised \in {"none", "ZeroDivisionError", "ValueError"}


(* ======================================================================= *)
(*                               properties                                *)
(* ======================================================================= *)
ValidLot == N >= 1 /\ 0 <= D /\ D <= N
EvaluatorDone == fn \in Evaluators /\ pc = "done"
SolverDone == fn \in Solvers /\ pc = "done"
CurveDone == fn \in Curves /\ pc = "done"

\* the least integer d with d >= N_ * q, stated without Ceil
LeastIntegerAbove(N_, q) ==
    LET t == Mul(Num(N_), q)
    IN  CHOOSE d \in 0..(N_ + 1) : Leq(t, Num(d)) /\ Lt(Num(d - 1), t)

\* the sample sizes in 1..N that meet the risk target at D_
Feasible(D_) == {m \in 1..N : Leq(Evaluate(fn, N, D_, m, c), beta)}
Least(S) == CHOOSE m \in S : \A k \in S : m <= k

\* C1: the solver (both variants) returns (n, D, Pa) with D = ceil(N*pL),
\* Pa the evaluator's value at (N, D, n, c) and n the smallest sample size in
\* 1..N whose acceptance probability at D is <= beta; when no sample size in
\* 1..N meets the bound it returns n = N with the acceptance probability at N.
C1_SolverMinimal ==
    SolverDone =>
        LET Dl == LeastIntegerAbove(N, pL)
            ok == Feasible(Dl)
        IN  /\ raised = "none"
            /\ ret[2] = Dl
            /\ ret[3] = Evaluate(fn, N, Dl, ret[1], c)
            /\ IF ok # {} THEN ret[1] = Least(ok) ELSE ret[1] = N

C1_Witness ==
    /\ SolverDone
    /\ retline \in {73, 264}
    /\ ret[1] >= 2
    /\ ret[1] < N

\* C2: in exact rational arithmetic, on N >= 1, D in 0..N, n in 0..N the
\* cumulative product of prob_zero_defects (with its early returns) equals
\* C(N-D,n)/C(N,n) and equals prob_aceptacion(N, D, n, 0).
C2_ZeroMatchesClosedForm ==
    (fn = "prob_zero_defects" /\ pc = "done" /\ ValidLot /\ 0 <= n /\ n <= N) =>
        /\ arith = "exact"
        /\ raised = "none"
        /\ ret = Norm(comb(N - D, n), comb(N, n))
        /\ ret = prob_aceptacion(N, D, n, 0)

C2_Witness ==
    /\ fn = "prob_zero_defects" /\ pc = "done" /\ ValidLot /\ arith = "exact"
    /\ retline = 60 /\ n >= 2 /\ Lt(Num(0), ret) /\ Lt(ret, Num(1))

\* C3: for N >= 1, D in 0..N, c >= 0 and 0 <= n < N the acceptance
\* probability at n + 1 is at most the acceptance probability at n, for
\* prob_aceptacion and for prob_zero_defects.
C3_NonIncreasingInSample ==
    (EvaluatorDone /\ ValidLot /\ c >= 0 /\ 0 <= n /\ n < N) =>
        /\ raised = "none"
        /\ Leq(Evaluate(fn, N, D, n + 1, c), ret)

\* C4: for N >= 1, n in 0..N, c >= 0 and 0 <= D < N the acceptance
\* probability at D + 1 is at most the acceptance probability at D, for
\* prob_aceptacion and for prob_zero_defects.
C4_NonIncreasingInDefectives ==
    (EvaluatorDone /\ N >= 1 /\ c >= 0 /\ 0 <= n /\ n <= N /\ 0 <= D /\ D < N) =>
        /\ raised = "none"
        /\ Leq(Evaluate(fn, N, D + 1, n, c), ret)

\* C5: whenever n > N, both evaluators return exactly 0.0 without raising,
\* for every D and every c >= 0.
C5_ZeroWhenSampleExceedsLot ==
    (EvaluatorDone /\ N >= 1 /\ n > N /\ c >= 0) =>
        /\ raised = "none"
        /\ ret = Num(0)

\* C6: for N >= 1, 0 <= n <= N and c >= 0, both evaluators return exactly
\* 1.0 whenever n = 0 or D <= 0, negative D included.
C6_OneWhenNoDefectiveCanBeFound ==
    (EvaluatorDone /\ N >= 1 /\ 0 <= n /\ n <= N /\ c >= 0 /\ (n = 0 \/ D <= 0)) =>
        /\ raised = "none"
        /\ ret = Num(1)

\* the k-th of `puntos` evenly spaced proportions from 0 to p_max
Spaced(k) ==
    IF k = 1 THEN Num(0)
    ELSE IF k = puntos THEN p_max
    ELSE Mul(Num(k - 1), Div(p_max, Num(puntos - 1)))

\* C7: the curve generators return exactly `puntos` pairs; the k-th abscissa
\* is the k-th of `puntos` evenly spaced proportions p from 0 to p_max (on
\* the percent scale of the returned axis), the ordinate is 100 times the
\* evaluator at ceil(N*p); the first pair is at p = 0 with 100%, and the
\* ordinate never increases from one pair to the next.
C7_CurvePoints ==
    CurveDone =>
        /\ raised = "none"
        /\ Len(ret[1]) = puntos /\ Len(ret[2]) = puntos
        /\ \A k \in 1..puntos :
              /\ ret[1][k] = Mul(Spaced(k), Num(100))
              /\ ret[2][k] =
                    Mul(Evaluate(fn, N, LeastIntegerAbove(N, Spaced(k)), n, c),
                        Num(100))
        /\ ret[1][1] = Num(0)
        /\ ret[2][1] = Num(100)
        /\ \A k \in 1..(puntos - 1) : Leq(ret[2][k + 1], ret[2][k])

C8_Step ==
    fn \in Evaluators =>
        /\ raised' = "none"
        /\ (fn = "prob_aceptacion" /\ pc = "loop" /\ x <= c) =>
              IF pa_guard(N, D, n, x)
              THEN /\ D >= 0 /\ x >= 0 /\ N - D >= 0 /\ n - x >= 0
                   /\ 0 <= n /\ n <= N
                   /\ comb(N, n) # 0
              ELSE Pa' = Pa /\ x' = x + 1
        /\ (fn = "prob_zero_defects" /\ pc = "loop" /\ i < n) => N - i >= 1

\* C8: the evaluators never raise on integer inputs: an x failing the guard
\* is skipped and leaves the sum unchanged, a term that is evaluated has
\* non-negative arguments to the three binomial coefficients and C(N,n) # 0
\* (so 0 <= n <= N), and every denominator N - i of the product loop is >= 1.
C8_EvaluatorsNeverRaise == [][C8_Step]_vars

C8_Witness ==
    /\ fn = "prob_aceptacion" /\ pc = "done" /\ raised = "none"
    /\ (n > N \/ D < 0 \/ D > N \/ n < 0)
    /\ c >= 1

\* u lies between lo / den and hi / den
Within(u, lo, hi, den) == Leq(Quot(lo, den), u) /\ Leq(u, Quot(hi, den))

\* C9: for N >= 1 and 0 <= n <= N the AOQL estimators return
\* 0.3679/(N*f) with f = n/N when f > 0, that is 0.3679/n up to rounding
\* (0.460% at N = 600, n = 80), and the not-a-number value, without
\* raising, when n = 0.
C9_Aoql ==
    (fn \in Aoqls /\ pc = "done" /\ N >= 1 /\ 0 <= n /\ n <= N) =>
        /\ raised = "none"
        /\ n = 0 => IsNaN(ret)
        /\ n > 0 => /\ ~IsNaN(ret)
                    /\ f = Quot(n, N)
                    /\ Within(Mul(ret, Num(n)), 36789, 36791, 100000)
        /\ (N = 600 /\ n = 80) => Within(Mul(ret, Num(100)), 4595, 4605, 10000)

C9_Witness ==
    /\ fn \in Aoqls /\ pc = "done" /\ N >= 1 /\ n = 0 /\ IsNaN(ret)
    /\ raised = "none"

\* C10: with D = ceil(N*pL), the solver's Pa meets Pa <= beta exactly when
\* D > c; when D <= c it returns from the fallback with n = N and Pa = 1;
\* when D > c the returned n satisfies c < n <= N - D + c + 1; the c = 0
\* solver never returns from its fallback and always meets the target.
C10_TargetMetIffDExceedsC ==
    SolverDone =>
        LET Dl == LeastIntegerAbove(N, pL) IN
        /\ raised = "none"
        /\ Leq(ret[3], beta) <=> Dl > c
        /\ Dl <= c => /\ retline \in {74, 265}
                      /\ ret[1] = N
                      /\ ret[3] = Num(1)
        /\ Dl > c => /\ c < ret[1]
                     /\ ret[1] <= N - Dl + c + 1
        /\ ZeroVariant(fn) => /\ retline = 73
                              /\ Leq(ret[3], beta)

====
